---- MODULE Spec2Model ----
(***************************************************************************)
(* Model of the car renting system (src/main.py).                          *)
(*                                                                         *)
(* Text is modelled as text: a Python str is a tuple of one-character      *)
(* strings, a file is the sequence of its lines (the terminating "\n" of   *)
(* each line is implicit), and every read goes through strip/split and the *)
(* parser lambdas of VehicleRentalSystem.__init__; absent holds the names   *)
(* of the files that do not exist.  The clock is the                       *)
(* number of seconds since 01/01/EpochYear 00:00:00 local time; strftime   *)
(* and strptime convert it to and from calendar text.  Money is counted in *)
(* cents.                                                                  *)
(***************************************************************************)
EXTENDS Integers, Sequences, FiniteSets, TLC

VARIABLES vehiclesFile, customersFile, rentedFile, transFile, absent, now, out

vars == <<vehiclesFile, customersFile, rentedFile, transFile, absent, now, out>>

files == <<vehiclesFile, customersFile, rentedFile, transFile, absent>>

(***************************************************************************)
(* Bounds of the model.                                                    *)
(***************************************************************************)
\* rent_car is not offered once customers.txt holds this many lines
MaxCustomers == 2

(***************************************************************************)
(* str methods                                                             *)
(***************************************************************************)
Digits == <<"0", "1", "2", "3", "4", "5", "6", "7", "8", "9">>

DigitSet == {Digits[i] : i \in 1..10}

DigitValues == [c \in DigitSet |-> (CHOOSE i \in 1..10 : Digits[i] = c) - 1]

IsDigit(c) == c \in DigitSet

DigitVal(c) == DigitValues[c]

IsSpace(c) == c \in {" ", "\t", "\n", "\r"}

\* s[i:] of Python, i counted from 1
From(s, i) == SubSeq(s, i, Len(s))

RECURSIVE LStrip(_)
LStrip(s) == IF s # <<>> /\ IsSpace(Head(s)) THEN LStrip(Tail(s)) ELSE s

RECURSIVE RStrip(_)
RStrip(s) ==
  IF s # <<>> /\ IsSpace(s[Len(s)]) THEN RStrip(SubSeq(s, 1, Len(s) - 1)) ELSE s

\* str.strip()
Strip(s) == RStrip(LStrip(s))

\* str.startswith(p)
StartsWith(s, p) == Len(p) <= Len(s) /\ SubSeq(s, 1, Len(p)) = p

\* index of the first sep in s, 0 when there is none
RECURSIVE FindChar(_, _, _)
FindChar(s, sep, i) ==
  IF i > Len(s) THEN 0
  ELSE IF s[i] = sep THEN i
  ELSE FindChar(s, sep, i + 1)

\* str.split(sep) for a one-character sep: always at least one field
RECURSIVE Split(_, _)
Split(s, sep) ==
  LET i == FindChar(s, sep, 1)
  IN  IF i = 0 THEN <<s>>
      ELSE <<SubSeq(s, 1, i - 1)>> \o Split(From(s, i + 1), sep)

\* sep.join(parts)
RECURSIVE Join(_, _)
Join(parts, sep) ==
  IF parts = <<>> THEN <<>>
  ELSE IF Len(parts) = 1 THEN parts[1]
  ELSE parts[1] \o sep \o Join(Tail(parts), sep)

AllDigits(s) == s # <<>> /\ \A i \in 1..Len(s) : IsDigit(s[i])

\* int(s) for a string of decimal digits
RECURSIVE ParseDigits(_, _)
ParseDigits(s, n) ==
  IF n = 0 THEN 0 ELSE 10 * ParseDigits(s, n - 1) + DigitVal(s[n])

ParseNat(s) == ParseDigits(s, Len(s))

\* str(n) for n >= 0
RECURSIVE NatText(_)
NatText(n) ==
  IF n < 10 THEN <<Digits[n + 1]>>
  ELSE NatText(n \div 10) \o <<Digits[(n % 10) + 1]>>

\* "%02d" and "%04d" of strftime
RECURSIVE Pad(_, _)
Pad(s, w) == IF Len(s) >= w THEN s ELSE Pad(<<"0">> \o s, w)

\* n \div d rounded towards minus infinity, as timedelta normalises .days
FloorDiv(n, d) == IF n >= 0 THEN n \div d ELSE -(((-n) + d - 1) \div d)

(***************************************************************************)
(* datetime: a datetime is [ord, sec], the proleptic Gregorian ordinal of  *)
(* its day (01/01/0001 is day 1) and the second of that day.               *)
(***************************************************************************)
SecondsPerDay == 24 * 60 * 60

IsLeap(y) == y % 4 = 0 /\ (y % 100 # 0 \/ y % 400 = 0)

DaysInMonth(y, m) ==
  IF m = 2 THEN (IF IsLeap(y) THEN 29 ELSE 28)
  ELSE IF m \in {4, 6, 9, 11} THEN 30 ELSE 31

RECURSIVE DaysBeforeMonth(_, _)
DaysBeforeMonth(y, m) ==
  IF m = 1 THEN 0 ELSE DaysBeforeMonth(y, m - 1) + DaysInMonth(y, m - 1)

DaysBeforeYear(y) ==
  LET p == y - 1 IN p * 365 + (p \div 4) - (p \div 100) + (p \div 400)

\* date.toordinal()
Ymd2Ord(y, m, d) == DaysBeforeYear(y) + DaysBeforeMonth(y, m) + d

\* the year of the day with ordinal n
Ord2Year(n) ==
  LET n0   == n - 1
      n400 == n0 \div 146097
      r400 == n0 % 146097
      n100 == r400 \div 36524
      r100 == r400 % 36524
      n4   == r100 \div 1461
      r4   == r100 % 1461
      n1   == r4 \div 365
      y    == n400 * 400 + 1 + n100 * 100 + n4 * 4 + n1
  IN  IF n1 = 4 \/ n100 = 4 THEN y - 1 ELSE y

\* date.fromordinal(n) as [year, month, day]
Ord2Ymd(n) ==
  LET y == Ord2Year(n)
      k == n - DaysBeforeYear(y)
      m == CHOOSE i \in 1..12 :
             DaysBeforeMonth(y, i) < k /\ k <= DaysBeforeMonth(y, i) + DaysInMonth(y, i)
  IN  [year |-> y, month |-> m, day |-> k - DaysBeforeMonth(y, m)]

DateTime(y, m, d, hh, mm, ss) ==
  [ord |-> Ymd2Ord(y, m, d), sec |-> (hh * 60 + mm) * 60 + ss]

\* dt + timedelta(seconds = s), s >= 0
AddSeconds(dt, s) ==
  LET t == dt.sec + s
  IN  [ord |-> dt.ord + (t \div SecondsPerDay), sec |-> t % SecondsPerDay]

\* (a - b).days: timedelta keeps 0 <= seconds < 86400, so days is the floor
DeltaDays(a, b) ==
  FloorDiv((a.ord - b.ord) * SecondsPerDay + (a.sec - b.sec), SecondsPerDay)

Before(a, b) == a.ord < b.ord \/ (a.ord = b.ord /\ a.sec < b.sec)

\* the field patterns of _strptime: %d %m %Y %H %M
DayField(s) ==
  \/ Len(s) = 2 /\ s[1] = "3" /\ s[2] \in {"0", "1"}
  \/ Len(s) = 2 /\ s[1] \in {"1", "2"} /\ IsDigit(s[2])
  \/ Len(s) = 2 /\ s[1] = "0" /\ IsDigit(s[2]) /\ s[2] # "0"
  \/ Len(s) = 1 /\ IsDigit(s[1]) /\ s[1] # "0"
  \/ Len(s) = 2 /\ s[1] = " " /\ IsDigit(s[2]) /\ s[2] # "0"

MonthField(s) ==
  \/ Len(s) = 2 /\ s[1] = "1" /\ s[2] \in {"0", "1", "2"}
  \/ Len(s) = 2 /\ s[1] = "0" /\ IsDigit(s[2]) /\ s[2] # "0"
  \/ Len(s) = 1 /\ IsDigit(s[1]) /\ s[1] # "0"

YearField(s) == Len(s) = 4 /\ AllDigits(s)

HourField(s) ==
  \/ Len(s) = 2 /\ s[1] = "2" /\ s[2] \in {"0", "1", "2", "3"}
  \/ Len(s) = 2 /\ s[1] \in {"0", "1"} /\ IsDigit(s[2])
  \/ Len(s) = 1 /\ IsDigit(s[1])

MinuteField(s) ==
  \/ Len(s) = 2 /\ s[1] \in {"0", "1", "2", "3", "4", "5"} /\ IsDigit(s[2])
  \/ Len(s) = 1 /\ IsDigit(s[1])

BadDate == [ok |-> FALSE, year |-> 0, month |-> 0, day |-> 0]

\* datetime.strptime(s, "%d/%m/%Y"): ok = FALSE stands for ValueError
StrptimeDate(s) ==
  LET f == Split(s, "/")
  IN  IF Len(f) # 3 THEN BadDate
      ELSE IF ~(DayField(f[1]) /\ MonthField(f[2]) /\ YearField(f[3])) THEN BadDate
      ELSE LET d == ParseNat(LStrip(f[1]))
               m == ParseNat(f[2])
               y == ParseNat(f[3])
           IN  IF y < 1 \/ d > DaysInMonth(y, m) THEN BadDate
               ELSE [ok |-> TRUE, year |-> y, month |-> m, day |-> d]

BadStamp == [ok |-> FALSE, dt |-> [ord |-> 0, sec |-> 0]]

\* datetime.strptime(s, "%d/%m/%Y %H:%M")
StrptimeStamp(s) ==
  LET sp == FindChar(s, " ", 2)
  IN  IF sp = 0 THEN BadStamp
      ELSE LET date == StrptimeDate(SubSeq(s, 1, sp - 1))
               hm   == Split(From(s, sp + 1), ":")
           IN  IF ~date.ok \/ Len(hm) # 2 THEN BadStamp
               ELSE IF ~(HourField(hm[1]) /\ MinuteField(hm[2])) THEN BadStamp
               ELSE [ok |-> TRUE,
                     dt |-> DateTime(date.year, date.month, date.day,
                                     ParseNat(hm[1]), ParseNat(hm[2]), 0)]

\* dt.strftime("%d/%m/%Y %H:%M"): the seconds are dropped
Strftime(dt) ==
  LET ymd == Ord2Ymd(dt.ord)
  IN  Pad(NatText(ymd.day), 2) \o <<"/">> \o Pad(NatText(ymd.month), 2) \o <<"/">>
      \o Pad(NatText(ymd.year), 4) \o <<" ">>
      \o Pad(NatText(dt.sec \div 3600), 2) \o <<":">>
      \o Pad(NatText((dt.sec % 3600) \div 60), 2)

(***************************************************************************)
(* Record Store: the parser lambdas and the bulk reads                     *)
(***************************************************************************)
Min(a, b) == IF a <= b THEN a ELSE b

\* dict(zip(keys, vals)): zip stops at the shorter of the two
ZipDict(keys, vals) ==
  LET n == Min(Len(keys), Len(vals))
  IN  [k \in {keys[i] : i \in 1..n} |->
         vals[CHOOSE i \in 1..n : keys[i] = k /\ \A j \in (i + 1)..n : keys[j] # k]]

BadNumber == [ok |-> FALSE, val |-> 0]

\* float(s), as cents, of decimal text with at most two fraction digits
ParseFloat(s) ==
  LET f == Split(s, ".")
  IN  IF Len(f) = 1 /\ AllDigits(f[1]) THEN [ok |-> TRUE, val |-> 100 * ParseNat(f[1])]
      ELSE IF Len(f) = 2 /\ AllDigits(f[1]) /\ AllDigits(f[2]) /\ Len(f[2]) <= 2
        THEN [ok |-> TRUE,
              val |-> 100 * ParseNat(f[1])
                      + (IF Len(f[2]) = 1 THEN 10 ELSE 1) * ParseNat(f[2])]
      ELSE BadNumber

\* int(s)
ParseInt(s) ==
  IF AllDigits(s) THEN [ok |-> TRUE, val |-> ParseNat(s)]
  ELSE IF Len(s) > 1 /\ s[1] = "-" /\ AllDigits(Tail(s))
    THEN [ok |-> TRUE, val |-> -ParseNat(Tail(s))]
  ELSE BadNumber

\* str(n)
IntText(n) == IF n < 0 THEN <<"-">> \o NatText(-n) ELSE NatText(n)

\* f"{c:.2f}" of an amount of c cents
CentsText(c) ==
  IF c < 0 THEN <<"-">> \o NatText((-c) \div 100) \o <<".">> \o Pad(NatText((-c) % 100), 2)
  ELSE NatText(c \div 100) \o <<".">> \o Pad(NatText(c % 100), 2)

vehicle_parser(line) ==
  LET f == Split(line, ",")
  IN  [reg |-> f[1], model |-> f[2], rate |-> ParseFloat(f[3]).val,
       properties |-> From(f, 4)]

customer_parser(line) ==
  ZipDict(<<"dob", "fname", "lname", "email">>, Split(line, ","))

rented_parser(line) ==
  ZipDict(<<"reg", "customer_dob", "start_time">>, Split(line, ","))

transaction_parser(line) ==
  LET f == Split(line, ",")
  IN  [reg |-> f[1], dob |-> f[2], start |-> f[3], end |-> f[4],
       days |-> ParseInt(f[5]).val, price |-> ParseFloat(f[6]).val]

\* FileReader.read_file with each parser, on the lines of a file
ReadVehiclesOf(file) == [i \in 1..Len(file) |-> vehicle_parser(Strip(file[i]))]

ReadCustomersOf(file) == [i \in 1..Len(file) |-> customer_parser(Strip(file[i]))]

ReadRentedOf(file) == [i \in 1..Len(file) |-> rented_parser(Strip(file[i]))]

ReadTransactionsOf(file) == [i \in 1..Len(file) |-> transaction_parser(Strip(file[i]))]

\* LinesOf giving the line of a stock fleet when vehicles.txt is absent
LinesOfAbsentAsStock(filename, lines) ==
  IF filename \notin absent THEN lines
  ELSE IF filename = "vehicles.txt"
    THEN << <<"A","B",",","S","e","d","a","n",",","2","5",".","0","0">> >>
  ELSE <<>>

\* the lines read_file iterates over: none after FileNotFoundError
LinesOf(filename, lines) == IF filename \in absent THEN <<>> ELSE lines

read_vehicles == ReadVehiclesOf(LinesOf("vehicles.txt", vehiclesFile))

read_customers == ReadCustomersOf(LinesOf("customers.txt", customersFile))

read_rented == ReadRentedOf(LinesOf("rentedVehicles.txt", rentedFile))

read_transactions == ReadTransactionsOf(LinesOf("transActions.txt", transFile))

Regs(records) == {records[i].reg : i \in 1..Len(records)}

(***************************************************************************)
(* Catalog Query                                                           *)
(***************************************************************************)
\* Available without the filter on rented_regs
AvailableUnfiltered(vehicles, rented) == vehicles

\* Available with the test on rented_regs inverted
AvailableInverted(vehicles, rented) ==
  SelectSeq(vehicles, LAMBDA car : car.reg \in {rented[i].reg : i \in 1..Len(rented)})

\* [car for car in vehicles if car['reg'] not in rented_regs]
Available(vehicles, rented) ==
  SelectSeq(vehicles, LAMBDA car : car.reg \notin Regs(rented))

(***************************************************************************)
(* Customer Onboarding                                                     *)
(***************************************************************************)
LowerLetters == <<"a", "b", "c", "d", "e", "f", "g", "h", "i", "j", "k", "l", "m",
                  "n", "o", "p", "q", "r", "s", "t", "u", "v", "w", "x", "y", "z">>

UpperLetters == <<"A", "B", "C", "D", "E", "F", "G", "H", "I", "J", "K", "L", "M",
                  "N", "O", "P", "Q", "R", "S", "T", "U", "V", "W", "X", "Y", "Z">>

\* str.upper()
Upper(s) ==
  [i \in 1..Len(s) |->
     IF \E k \in 1..26 : LowerLetters[k] = s[i]
     THEN UpperLetters[CHOOSE k \in 1..26 : LowerLetters[k] = s[i]]
     ELSE s[i]]

\* the value _get_validated_name returns for an input line it accepts
ValidatedName(raw) == Upper(Strip(raw))

\* the test that ends the loop of _get_validated_name
NameAccepted(raw) == \A i \in 1..Len(ValidatedName(raw)) : ~IsDigit(ValidatedName(raw)[i])

ValidatedEmail(raw) == Strip(raw)

\* the test that ends the loop of _get_validated_email
EmailAccepted(raw) ==
  LET email == ValidatedEmail(raw)
  IN  /\ \E i \in 1..Len(email) : email[i] = "@"
      /\ \E i \in 1..Len(email) : email[i] = "."
      /\ Len(email) > 3

\* AgeAllowed with the upper limit off by one
AgeAllowedTo76(age) == 18 <= age /\ age <= 76

\* 18 <= age <= 75
AgeAllowed(age) == 18 <= age /\ age <= 75

\* any(c['dob'] == dob for c in customers)
DobOnFile(customers, dob) == \E i \in 1..Len(customers) : customers[i].dob = dob

\* validate_customer(dob) at clock reading t: the message printed, or "Valid"
validate_customer(dob, t) ==
  LET birth_date == StrptimeDate(dob)
  IN  IF ~birth_date.ok THEN "InvalidDate"
      ELSE IF ~AgeAllowed(Ord2Year(t.ord) - birth_date.year) THEN "AgeOutOfRange"
      ELSE IF DobOnFile(read_customers, dob) THEN "Duplicate"
      ELSE "Valid"

(***************************************************************************)
(* Inputs                                                                  *)
(***************************************************************************)
VehicleLines ==
  << <<"A","B",",","S","e","d","a","n",",","2","5",".","0","0",",","A","C",",","G","P","S">>,
     <<"A","B","C",",","V","a","n",",","5","0",".","2","5">> >>

\* vehicles.txt is never written: it is absent or empty, or holds the fleet
VehicleFiles == {<<>>, VehicleLines}

\* what the user may type as a registration
RegInputs == {<<"A","B">>, <<"A","B","C">>, <<"Z","Z">>, <<>>}

\* what the user may type as a date of birth
DobInputs ==
  { <<"0","1","/","0","1","/","1","9","5","1">>,
    <<" ","1","/","0","1","/","1","9","5","1">>,
    <<"3","1","/","1","2","/","2","0","0","9">>,
    <<"3","1","/","0","2","/","1","9","9","0">> }

NameInputs == {<<" ","a","n","n">>}

EmailInputs == {<<"a","@","b",".","c">>}

\* the first clock reading: 31/12/2026 23:59:30
StartNow == DateTime(2026, 12, 31, 23, 59, 30)

\* the clock readings of a run: the start, a day less ten seconds later,
\* 25 hours later and 3 days later
Clock == {AddSeconds(StartNow, d) :
            d \in {0, SecondsPerDay - 10, 25 * 3600, 3 * SecondsPerDay}}

(***************************************************************************)
(* The state                                                               *)
(***************************************************************************)
\* what the last menu operation printed
Report(op, msg) ==
  [op |-> op, msg |-> msg, avail |-> <<>>, reg |-> <<>>, days |-> 0, cost |-> 0,
   total |-> 0, count |-> 0]

\* the files the program writes; open(..., "a") creates the one it names
DataFiles == {"customers.txt", "rentedVehicles.txt", "transActions.txt"}

\* a first run: no data file exists yet; vehicles.txt may be missing too
Init ==
  /\ vehiclesFile \in VehicleFiles
  /\ customersFile = <<>>
  /\ rentedFile = <<>>
  /\ transFile = <<>>
  /\ \E missing \in SUBSET {"vehicles.txt"} :
       /\ missing # {} => vehiclesFile = <<>>
       /\ absent = DataFiles \cup missing
  /\ now = StartNow
  /\ out = Report("start", "Menu")

\* time passes while the program waits at a prompt
Tick ==
  /\ \E t \in Clock : Before(now, t) /\ now' = t
  /\ UNCHANGED <<files, out>>

list_available_cars ==
  LET available_cars == Available(read_vehicles, read_rented)
  IN  /\ out' = IF available_cars = <<>> THEN Report("list", "NoCars")
                ELSE [Report("list", "Available") EXCEPT !.avail = available_cars]
      /\ UNCHANGED <<files, now>>

(***************************************************************************)
(* Rental Workflow                                                         *)
(***************************************************************************)
\* select_available_car accepting whatever is typed
select_any_car(available_cars, reg) == TRUE

\* select_available_car taking a registration that an available one starts with
select_car_by_prefix(available_cars, reg) ==
  \E i \in 1..Len(available_cars) : StartsWith(available_cars[i].reg, reg)

\* any(car['reg'] == reg for car in available_cars)
select_available_car(available_cars, reg) ==
  \E i \in 1..Len(available_cars) : available_cars[i].reg = reg

\* the line add_customer appends to customers.txt
CustomerLine(dob, fname, lname, email) == Join(<<dob, fname, lname, email>>, <<",">>)

\* RentedLine with its first two fields swapped
RentedLineSwapped(reg, dob, t) == Join(<<dob, reg, Strftime(t)>>, <<",">>)

\* the line rent_car appends to rentedVehicles.txt
RentedLine(reg, dob, t) == Join(<<reg, dob, Strftime(t)>>, <<",">>)

\* add_customer writing the new line at the head of customers.txt
add_customer_at_head(dob, fname, lname, email, t) ==
  IF validate_customer(dob, t) # "Valid"
  THEN [customers |-> customersFile, ok |-> FALSE, dob |-> <<>>]
  ELSE [customers |-> <<CustomerLine(dob, ValidatedName(fname), ValidatedName(lname),
                                     ValidatedEmail(email))>> \o customersFile,
        ok |-> TRUE, dob |-> dob]

\* add_customer appending before it validates
add_customer_unvalidated(dob, fname, lname, email, t) ==
  [customers |-> Append(customersFile,
                        Join(<<dob, ValidatedName(fname), ValidatedName(lname),
                               ValidatedEmail(email)>>, <<",">>)),
   ok |-> validate_customer(dob, t) = "Valid", dob |-> dob]

\* add_customer with the lines typed at its prompts, validate_customer reading
\* the clock at t: the content of customers.txt afterwards and what it returns
\* (ok = FALSE stands for None)
add_customer(dob, fname, lname, email, t) ==
  IF validate_customer(dob, t) # "Valid"
  THEN [customers |-> customersFile, ok |-> FALSE, dob |-> <<>>]
  ELSE [customers |-> Append(customersFile,
                             CustomerLine(dob, ValidatedName(fname), ValidatedName(lname),
                                          ValidatedEmail(email))),
        ok |-> TRUE, dob |-> dob]

\* rent_car, in the order of its statements: the two reads, the prompt for reg,
\* add_customer (validate_customer reads the clock at now, then the user types
\* the names and the email), then the rental stamped at a clock reading t that
\* is not earlier
rent_car ==
  LET available == Available(read_vehicles, read_rented)
  IN  /\ Len(customersFile) < MaxCustomers
      /\ IF available = <<>>
         THEN /\ out' = Report("rent", "NoCars")
              /\ UNCHANGED <<files, now>>
         ELSE \E reg \in RegInputs :
           IF ~select_available_car(available, reg)
           THEN /\ out' = [Report("rent", "InvalidReg") EXCEPT
                             !.avail = available, !.reg = reg]
                /\ UNCHANGED <<files, now>>
           ELSE IF reg = <<>>
           THEN /\ out' = [Report("rent", "NoSelection") EXCEPT !.avail = available]
                /\ UNCHANGED <<files, now>>
           ELSE \E dob \in DobInputs, fname \in NameInputs, lname \in NameInputs,
                   email \in EmailInputs :
             /\ NameAccepted(fname) /\ NameAccepted(lname) /\ EmailAccepted(email)
             /\ LET added == add_customer(dob, fname, lname, email, now)
                IN  /\ customersFile' = added.customers
                    /\ IF ~added.ok \/ added.dob = <<>>
                       THEN /\ out' = [Report("rent", validate_customer(dob, now)) EXCEPT
                                         !.avail = available, !.reg = reg]
                            /\ absent' = IF added.customers = customersFile THEN absent
                                         ELSE absent \ {"customers.txt"}
                            /\ UNCHANGED <<vehiclesFile, rentedFile, transFile, now>>
                       ELSE \E t \in Clock :
                              /\ ~Before(t, now)
                              /\ now' = t
                              /\ rentedFile' =
                                   Append(rentedFile, RentedLine(reg, added.dob, t))
                              /\ absent' = absent \ {"customers.txt", "rentedVehicles.txt"}
                              /\ out' = [Report("rent", "Rented") EXCEPT
                                           !.avail = available, !.reg = reg]
                              /\ UNCHANGED <<vehiclesFile, transFile>>

(***************************************************************************)
(* Return Workflow                                                         *)
(***************************************************************************)
\* FirstWithReg falling back on the first record when none has the registration
FirstWithRegOrFirst(records, reg) ==
  IF \E i \in 1..Len(records) : records[i].reg = reg
  THEN CHOOSE i \in 1..Len(records) :
         records[i].reg = reg /\ \A j \in 1..(i - 1) : records[j].reg # reg
  ELSE IF records = <<>> THEN 0 ELSE 1

\* next((i for i, r in enumerate(records) if r['reg'] == reg), None), 0 for None
FirstWithReg(records, reg) ==
  IF \E i \in 1..Len(records) : records[i].reg = reg
  THEN CHOOSE i \in 1..Len(records) :
         records[i].reg = reg /\ \A j \in 1..(i - 1) : records[j].reg # reg
  ELSE 0

\* RentalDays without the day added
RentalDaysElapsed(end_time, start_time) == DeltaDays(end_time, start_time)

\* days = (end_time - start_time).days + 1
RentalDays(end_time, start_time) == DeltaDays(end_time, start_time) + 1

\* TransactionLine with the start of the rental written as its end
TransactionLineEndIsStart(reg, rental, end_time, days, cost) ==
  Join(<<reg, rental.customer_dob, rental.start_time, rental.start_time,
         IntText(days), CentsText(cost)>>, <<",">>)

\* the line return_car appends to transActions.txt
TransactionLine(reg, rental, end_time, days, cost) ==
  Join(<<reg, rental.customer_dob, rental.start_time, Strftime(end_time),
         IntText(days), CentsText(cost)>>, <<",">>)

\* KeepLines with the filter inverted: the lines of the registration stay
KeepReturnedLines(lines, reg) == SelectSeq(lines, LAMBDA line : StartsWith(line, reg))

\* KeepLines dropping nothing
KeepAllLines(lines, reg) == lines

\* the lines return_car writes back to rentedVehicles.txt
KeepLines(lines, reg) == SelectSeq(lines, LAMBDA line : ~StartsWith(line, reg))

return_car_with(reg) ==
  LET rented == read_rented
      r      == FirstWithReg(rented, reg)
      v      == FirstWithReg(read_vehicles, reg)
  IN  IF r = 0
      THEN /\ out' = Report("return", "NoRental")
           /\ UNCHANGED <<files, now>>
      ELSE IF v = 0
      THEN /\ out' = [Report("return", "StopIteration") EXCEPT !.reg = reg]
           /\ UNCHANGED <<files, now>>
      ELSE IF ~StrptimeStamp(rented[r].start_time).ok
      THEN /\ out' = [Report("return", "ValueError") EXCEPT !.reg = reg]
           /\ UNCHANGED <<files, now>>
      ELSE LET days == RentalDays(now, StrptimeStamp(rented[r].start_time).dt)
               cost == days * read_vehicles[v].rate
           IN  /\ transFile' = Append(transFile,
                                      TransactionLine(reg, rented[r], now, days, cost))
               /\ rentedFile' = KeepLines(rentedFile, reg)
               /\ absent' = absent \ {"transActions.txt"}
               /\ out' = [Report("return", "Returned") EXCEPT
                            !.reg = reg, !.days = days, !.cost = cost]
               /\ UNCHANGED <<vehiclesFile, customersFile, now>>

(***************************************************************************)
(* Reporting                                                               *)
(***************************************************************************)
\* SumPrices counting the price of the first transaction only
SumPricesFirstOnly(transactions) ==
  IF transactions = <<>> THEN 0 ELSE Head(transactions).price

RECURSIVE SumPrices(_)
SumPrices(transactions) ==
  IF transactions = <<>> THEN 0
  ELSE Head(transactions).price + SumPrices(Tail(transactions))

count_money ==
  LET transactions == read_transactions
  IN  /\ out' = IF transactions = <<>> THEN Report("count", "NoRentals")
                ELSE [Report("count", "Earnings") EXCEPT
                        !.total = SumPrices(transactions), !.count = Len(transactions)]
      /\ UNCHANGED <<files, now>>

(***************************************************************************)
(* The menu loop                                                           *)
(***************************************************************************)
return_car == \E reg \in RegInputs : return_car_with(reg)

Next == Tick \/ list_available_cars \/ rent_car \/ return_car \/ count_money

Spec == Init /\ [][Next]_vars

(***************************************************************************)
(* Abnormal interruption: the process is ended (Ctrl-C, kill) inside       *)
(* return_car after the block that appends to transActions.txt (lines      *)
(* 177-181) and before the one that rewrites rentedVehicles.txt (183-186); *)
(* the user then starts the program again.                                 *)
(***************************************************************************)
MaxTransactions == 2

return_car_interrupted ==
  \E reg \in RegInputs :
    LET rented == read_rented
        r      == FirstWithReg(rented, reg)
        v      == FirstWithReg(read_vehicles, reg)
    IN  /\ Len(transFile) < MaxTransactions
        /\ r # 0 /\ v # 0
        /\ StrptimeStamp(rented[r].start_time).ok
        /\ LET days == RentalDays(now, StrptimeStamp(rented[r].start_time).dt)
               cost == days * read_vehicles[v].rate
           IN  /\ transFile' = Append(transFile,
                                      TransactionLine(reg, rented[r], now, days, cost))
               /\ absent' = absent \ {"transActions.txt"}
               /\ out' = [Report("return", "Interrupted") EXCEPT !.reg = reg]
               /\ UNCHANGED <<vehiclesFile, customersFile, rentedFile, now>>

\* a first run on a fleet of one vehicle
InitInterrupt ==
  /\ vehiclesFile = <<VehicleLines[1]>>
  /\ customersFile = <<>>
  /\ rentedFile = <<>>
  /\ transFile = <<>>
  /\ absent = DataFiles
  /\ now = StartNow
  /\ out = Report("start", "Menu")

NextInterrupt == Next \/ return_car_interrupted

SpecInterrupt == InitInterrupt /\ [][NextInterrupt]_vars

(***************************************************************************)
(* A corrupted store: rentedVehicles.txt holds a rental of ZZ, a vehicle   *)
(* that vehicles.txt does not (or no longer does) list.  The program is    *)
(* started on these files; after an uncaught exception ends it, the user   *)
(* starts it again, so the operations go on.                               *)
(***************************************************************************)
FaultDob == <<"0","2","/","0","2","/","1","9","6","0">>

FaultReg == <<"Z","Z">>

InitFault ==
  /\ vehiclesFile \in VehicleFiles
  /\ customersFile =
       <<CustomerLine(FaultDob, <<"B","o","b">>, <<"R","a","y">>, <<"b","@","c",".","d">>)>>
  /\ rentedFile = <<RentedLine(FaultReg, FaultDob, StartNow)>>
  /\ transFile = <<>>
  /\ \E missing \in SUBSET {"vehicles.txt"} :
       /\ missing # {} => vehiclesFile = <<>>
       /\ absent = {"transActions.txt"} \cup missing
  /\ now = StartNow
  /\ out = Report("start", "Menu")

SpecFault == InitFault /\ [][Next]_vars

(***************************************************************************)
(* The bulk reads on their own: the program is started on files that may   *)
(* hold malformed lines, and each read_* is applied to them.               *)
(***************************************************************************)
\* the exception vehicle_parser raises on a line, "None" when it returns
vehicle_parser_error(line) ==
  LET f == Split(line, ",")
  IN  IF Len(f) < 3 THEN "IndexError"
      ELSE IF ~ParseFloat(f[3]).ok THEN "ValueError"
      ELSE "None"

\* dict(zip(keys, line.split(','))) raises nothing
customer_parser_error(line) == "None"

rented_parser_error(line) == "None"

\* the exception transaction_parser raises on a line, "None" when it returns
transaction_parser_error(line) ==
  LET f == Split(line, ",")
  IN  IF Len(f) < 5 THEN "IndexError"
      ELSE IF ~ParseInt(f[5]).ok THEN "ValueError"
      ELSE IF Len(f) < 6 THEN "IndexError"
      ELSE IF ~ParseFloat(f[6]).ok THEN "ValueError"
      ELSE "None"

\* the outcome of the parser on each line that read_file iterates over
VehicleErrors(lines) ==
  [i \in 1..Len(lines) |-> vehicle_parser_error(Strip(lines[i]))]

CustomerErrors(lines) ==
  [i \in 1..Len(lines) |-> customer_parser_error(Strip(lines[i]))]

RentedErrors(lines) ==
  [i \in 1..Len(lines) |-> rented_parser_error(Strip(lines[i]))]

TransactionErrors(lines) ==
  [i \in 1..Len(lines) |-> transaction_parser_error(Strip(lines[i]))]

\* FileReader.read_file: the list returned, or the exception of the first line
\* the parser fails on (FileNotFoundError is the only one caught); errors are
\* the outcomes of the parser on the lines, records what it returns on them
read_file(filename, errors, records) ==
  IF filename \in absent THEN [error |-> "None", records |-> <<>>]
  ELSE IF \E i \in 1..Len(errors) : errors[i] # "None"
  THEN [error |-> errors[CHOOSE i \in 1..Len(errors) :
                           /\ errors[i] # "None"
                           /\ \A j \in 1..(i - 1) : errors[j] = "None"],
        records |-> <<>>]
  ELSE [error |-> "None", records |-> records]

\* lines of customers.txt: well-formed, one field, empty, five fields
CustomerTestLines ==
  { <<"0","1","/","0","1","/","1","9","5","1",",","A","n","n",",","L","e","e",",","a","@","b",".","c">>,
    <<"0","1","/","0","1","/","1","9","5","1">>,
    <<>>,
    <<"0","1","/","0","1","/","1","9","5","1",",","A","n","n",",","L","e","e",",","a","@","b",".","c",",","x">> }

\* lines of rentedVehicles.txt: well-formed, one field, empty, four fields
RentedTestLines ==
  { <<"A","B",",","0","1","/","0","1","/","1","9","5","1",",","3","1","/","1","2","/","2","0","2","6"," ","2","3",":","5","9">>,
    <<"A","B">>,
    <<>>,
    <<"A","B",",","0","1","/","0","1","/","1","9","5","1",",","3","1","/","1","2","/","2","0","2","6"," ","2","3",":","5","9",",","x">> }

\* lines of vehicles.txt: well-formed with and without properties, two fields,
\* a rate that is no number, empty
VehicleTestLines ==
  { <<"A","B",",","S","e","d","a","n",",","2","5",".","0","0",",","A","C",",","G","P","S">>,
    <<"A","B","C",",","V","a","n",",","5","0",".","2","5">>,
    <<"A","B",",","S","e","d","a","n">>,
    <<"A","B",",","S","e","d","a","n",",","a","b","c">>,
    <<>> }

\* lines of transActions.txt: well-formed, two fields, empty, days or price that
\* is no number, seven fields
TransactionTestLines ==
  { <<"A","B",",","0","1","/","0","1","/","1","9","5","1",",","3","1","/","1","2","/","2","0","2","6"," ","2","3",":","5","9",",","0","1","/","0","1","/","2","0","2","7"," ","0","0",":","0","0",",","1",",","2","5",".","0","0">>,
    <<"A","B",",","0","1","/","0","1","/","1","9","5","1">>,
    <<>>,
    <<"A","B",",","0","1","/","0","1","/","1","9","5","1",",","3","1","/","1","2","/","2","0","2","6"," ","2","3",":","5","9",",","0","1","/","0","1","/","2","0","2","7"," ","0","0",":","0","0",",","x",",","2","5",".","0","0">>,
    <<"A","B",",","0","1","/","0","1","/","1","9","5","1",",","3","1","/","1","2","/","2","0","2","6"," ","2","3",":","5","9",",","0","1","/","0","1","/","2","0","2","7"," ","0","0",":","0","0",",","1",",","a","b","c">>,
    <<"A","B",",","0","1","/","0","1","/","1","9","5","1",",","3","1","/","1","2","/","2","0","2","6"," ","2","3",":","5","9",",","0","1","/","0","1","/","2","0","2","7"," ","0","0",":","0","0",",","1",",","2","5",".","0","0",",","x">> }

\* the files of at most MaxTestLines lines taken from a set of lines
MaxTestLines == 2

TestFiles(lines) == UNION {[1..n -> lines] : n \in 0..MaxTestLines}

InitRead ==
  /\ \E filename \in {"vehicles.txt", "customers.txt", "rentedVehicles.txt",
                      "transActions.txt"} :
       /\ vehiclesFile \in
            IF filename = "vehicles.txt" THEN TestFiles(VehicleTestLines) ELSE {<<>>}
       /\ customersFile \in
            IF filename = "customers.txt" THEN TestFiles(CustomerTestLines) ELSE {<<>>}
       /\ rentedFile \in
            IF filename = "rentedVehicles.txt" THEN TestFiles(RentedTestLines) ELSE {<<>>}
       /\ transFile \in
            IF filename = "transActions.txt" THEN TestFiles(TransactionTestLines)
            ELSE {<<>>}
  /\ absent = {}
  /\ now = StartNow
  /\ out = Report("start", "Menu")

\* what a bulk read gave: the list, or the exception that ended the program
ReadReport(filename, result) ==
  [op |-> "read", file |-> filename, error |-> result.error, records |-> result.records]

ReadVehicles ==
  /\ out' = ReadReport("vehicles.txt",
              read_file("vehicles.txt", VehicleErrors(vehiclesFile),
                        ReadVehiclesOf(vehiclesFile)))
  /\ UNCHANGED <<files, now>>

ReadCustomers ==
  /\ out' = ReadReport("customers.txt",
              read_file("customers.txt", CustomerErrors(customersFile),
                        ReadCustomersOf(customersFile)))
  /\ UNCHANGED <<files, now>>

ReadRented ==
  /\ out' = ReadReport("rentedVehicles.txt",
              read_file("rentedVehicles.txt", RentedErrors(rentedFile),
                        ReadRentedOf(rentedFile)))
  /\ UNCHANGED <<files, now>>

ReadTransactions ==
  /\ out' = ReadReport("transActions.txt",
              read_file("transActions.txt", TransactionErrors(transFile),
                        ReadTransactionsOf(transFile)))
  /\ UNCHANGED <<files, now>>

NextRead == ReadVehicles \/ ReadCustomers \/ ReadRented \/ ReadTransactions

SpecRead == InitRead /\ [][NextRead]_vars

(***************************************************************************)
(* Properties                                                              *)
(***************************************************************************)
\* a step that is a menu operation which printed or wrote something new
OpStep == out' # out \/ files' # files

Rented(op) == op.op = "rent" /\ op.msg = "Rented"

Returned(op) == op.op = "return" /\ op.msg = "Returned"

IsPrefix(a, b) == Len(a) <= Len(b) /\ SubSeq(b, 1, Len(a)) = a

Last(seq) == seq[Len(seq)]

\* C1: every registration appears in the Active Rental collection at most
\* once, in every state reached by rent_car and return_car operations.
C1_OneRentalPerRegistration ==
  \A i, j \in 1..Len(rentedFile) :
    i # j => read_rented[i].reg # read_rented[j].reg

\* two vehicles are rented, the second by the rent_car that just succeeded
C1_Witness == Rented(out) /\ Len(rentedFile) = 2

\* the Active Rental lines of registrations other than reg
OtherRentals(lines, reg) ==
  SelectSeq(lines, LAMBDA line : rented_parser(Strip(line)).reg # reg)

\* C2: a successful return_car for registration X removes exactly one Active
\* Rental record, the one of X; the records of every other registration
\* (also of those X is a prefix of) stay, in the same order.
C2_ReturnRemovesOnlyItsRecord ==
  [][Returned(out') /\ OpStep =>
       /\ rentedFile' = OtherRentals(rentedFile, out'.reg)
       /\ Len(rentedFile') = Len(rentedFile) - 1]_vars

\* the raw fields of a line as written
RawFields(line) == Split(line, ",")

\* C3: a successful rent_car appends exactly one Customer line and exactly one
\* Active Rental line, the latter with the selected registration and the date
\* of birth of the customer just appended; vehicles and transactions are
\* unchanged; and no line is appended to either file unless the available list
\* was not empty, held the registration and validate_customer accepted the
\* date of birth.
C3_RentAppendsOneCustomerOneRental ==
  [][/\ Rented(out') /\ OpStep =>
          /\ Len(customersFile') = Len(customersFile) + 1
          /\ IsPrefix(customersFile, customersFile')
          /\ Len(rentedFile') = Len(rentedFile) + 1
          /\ IsPrefix(rentedFile, rentedFile')
          /\ vehiclesFile' = vehiclesFile /\ transFile' = transFile
          /\ Last(ReadRentedOf(rentedFile')).reg = out'.reg
          /\ RawFields(Last(rentedFile'))[2] = RawFields(Last(customersFile'))[1]
          /\ StrptimeDate(Last(ReadRentedOf(rentedFile')).customer_dob).ok
          /\ StrptimeDate(Last(ReadRentedOf(rentedFile')).customer_dob)
               = StrptimeDate(Last(ReadCustomersOf(customersFile')).dob)
     /\ (Len(customersFile') > Len(customersFile) \/ Len(rentedFile') > Len(rentedFile)) =>
          /\ Rented(out')
          /\ Available(read_vehicles, read_rented) # <<>>
          /\ out'.reg \in Regs(Available(read_vehicles, read_rented))
          /\ validate_customer(RawFields(Last(customersFile'))[1], now) = "Valid"]_vars

\* a second rental was just created while the first is still active
C3_Witness == Rented(out) /\ Len(rentedFile) = 2 /\ Len(customersFile) = 2

UserInputErrors ==
  {"NoCars", "InvalidReg", "InvalidDate", "AgeOutOfRange", "Duplicate", "NoRental"}

\* C4: an operation that ends in a user input error (no vehicle available,
\* registration unknown or rented, date of birth rejected, no active rental)
\* leaves the four collections unchanged.
C4_InputErrorsChangeNothing ==
  [][out'.msg \in UserInputErrors => files' = files]_vars

\* a date of birth already on file was just rejected while a car is rented
C4_Witness ==
  out.op = "rent" /\ out.msg = "Duplicate" /\ rentedFile # <<>> /\ customersFile # <<>>

\* C5: after return_car succeeds for X, X has no Active Rental record and is
\* in the available list, so the next rent_car may take it.
C5_ReturnedCarIsAvailable ==
  Returned(out) =>
    /\ out.reg \notin Regs(read_rented)
    /\ out.reg \in Regs(Available(read_vehicles, read_rented))

\* a car was returned and then rented again
C5_Witness ==
  /\ Rented(out) /\ transFile # <<>>
  /\ out.reg = Last(read_transactions).reg

\* end - start of a Transaction record, in seconds, by its two timestamps
ElapsedSeconds(t) ==
  LET s == StrptimeStamp(t.start).dt
      e == StrptimeStamp(t.end).dt
  IN  (e.ord - s.ord) * SecondsPerDay + (e.sec - s.sec)

\* C6: every Transaction record has duration_days = floor((end - start) in
\* days) + 1, start and end being its two timestamps (the stored start of the
\* rental and the clock reading of the return, which the seconds dropped from
\* both leave in the same whole day): 1 for the same instant, 2 for 25 hours,
\* 4 for 3 days, and never less than 1 (the clock of the model never moves
\* backwards).
C6_DurationIsWholeDaysPlusOne ==
  \A i \in 1..Len(transFile) :
    LET t    == transaction_parser(Strip(transFile[i]))
        secs == ElapsedSeconds(t)
    IN  /\ (t.days - 1) * SecondsPerDay <= secs
        /\ secs < t.days * SecondsPerDay
        /\ t.days >= 1
        /\ secs = 0 => t.days = 1
        /\ secs = 25 * 3600 => t.days = 2
        /\ secs = 3 * SecondsPerDay => t.days = 4

\* one rental was returned 25 hours after its start and counts 2 days, the
\* other 3 days after its start and counts 4 days
C6_Witness ==
  /\ \E i \in 1..Len(transFile) :
       /\ ElapsedSeconds(read_transactions[i]) = 25 * 3600
       /\ read_transactions[i].days = 2
  /\ \E i \in 1..Len(transFile) :
       /\ ElapsedSeconds(read_transactions[i]) = 3 * SecondsPerDay
       /\ read_transactions[i].days = 4

\* C7: no two Customer records have the same date of birth, the date of birth
\* being the calendar date its DD/MM/YYYY field denotes.
C7_NoTwoCustomersShareBirthDate ==
  \A i, j \in 1..Len(customersFile) :
    i # j => StrptimeDate(read_customers[i].dob) # StrptimeDate(read_customers[j].dob)

\* a is v without the records whose registration is in rented, in v's order
RECURSIVE IsVehiclesMinusRented(_, _, _)
IsVehiclesMinusRented(a, v, rented) ==
  IF v = <<>> THEN a = <<>>
  ELSE IF Head(v).reg \in rented THEN IsVehiclesMinusRented(a, Tail(v), rented)
  ELSE a # <<>> /\ Head(a) = Head(v) /\ IsVehiclesMinusRented(Tail(a), Tail(v), rented)

\* C8: the available list of list_available_cars and of rent_car is the
\* vehicles whose registration no Active Rental record has, in the order of
\* the vehicle file: all of them when nothing is rented, none when there is no
\* vehicle; an empty list is reported as "no cars available" and changes
\* nothing.
C8_AvailableIsVehiclesMinusRented ==
  [][out'.op \in {"list", "rent"} /\ OpStep =>
       LET shown == IF out'.msg = "NoCars" THEN <<>> ELSE out'.avail
       IN  /\ IsVehiclesMinusRented(shown, read_vehicles, Regs(read_rented))
           /\ rentedFile = <<>> => shown = read_vehicles
           /\ vehiclesFile = <<>> => shown = <<>>
           /\ out'.avail = <<>> <=> out'.msg = "NoCars"
           /\ out'.msg = "NoCars" => files' = files]_vars

\* the list shows one car of the two because the other is rented
C8_Witness ==
  out.op = "list" /\ Len(out.avail) = 1 /\ Len(rentedFile) = 1 /\ Len(vehiclesFile) = 2

\* the year of birth in the Customer line that a step appends
AppendedBirthYear(customers) == StrptimeDate(RawFields(Last(customers))[1]).year

\* C9 as stated: every Customer record appended has a birth year between
\* current year - 75 and current year - 18 at the time it is appended (the
\* clock reading taken right after the append, for the rental's start).
C9_BirthYearInRangeWhenAppended ==
  [][Len(customersFile') > Len(customersFile) =>
       /\ Ord2Year(now'.ord) - 75 <= AppendedBirthYear(customersFile')
       /\ AppendedBirthYear(customersFile') <= Ord2Year(now'.ord) - 18]_vars

\* C9 as amended: every Customer record appended has a birth year between
\* current year - 75 and current year - 18, the current year being the one
\* validate_customer read, before the names and the email were typed.
C9_BirthYearInRangeWhenValidated ==
  [][Len(customersFile') > Len(customersFile) =>
       /\ StrptimeDate(RawFields(Last(customersFile'))[1]).ok
       /\ Ord2Year(now.ord) - 75 <= AppendedBirthYear(customersFile')
       /\ AppendedBirthYear(customersFile') <= Ord2Year(now.ord) - 18]_vars

\* a customer aged 75 was accepted in 2026 and one aged 18 in 2027
C9_Witness ==
  /\ Len(customersFile) = 2
  /\ StrptimeDate(read_customers[1].dob).year = 1951
  /\ StrptimeDate(read_customers[2].dob).year = 2009
  /\ Ord2Year(now.ord) = 2027

\* C10: every Active Rental record's registration is that of a Vehicle
\* record, so return_car always finds the vehicle of a rented registration.
C10_RentedRegistrationsAreVehicles ==
  /\ Regs(read_rented) \subseteq Regs(read_vehicles)
  /\ out.msg # "StopIteration"

\* a return found its vehicle while another rental stays active
C10_Witness == Returned(out) /\ rentedFile # <<>>

\* C11: when return_car finds an Active Rental record for the registration
\* typed but no Vehicle record with it, the operation ends in the uncaught
\* StopIteration, not in the "no rental found" message: no cost is computed,
\* no Transaction line is appended and the Active Rental line stays.
C11_MissingVehicleIsAFault ==
  [][\A reg \in RegInputs :
       (/\ reg \in Regs(read_rented)
        /\ reg \notin Regs(read_vehicles)
        /\ return_car_with(reg)) =>
          /\ out'.msg = "StopIteration"
          /\ out'.msg # "NoRental"
          /\ out'.cost = 0
          /\ files' = files]_vars

\* return_car has just met the rental of a vehicle that is not on file
C11_Witness ==
  /\ out.op = "return" /\ out.msg = "StopIteration"
  /\ out.reg \in Regs(read_rented)
  /\ out.reg \notin Regs(read_vehicles)
  /\ transFile = <<>>

\* the lines of the file a bulk read was applied to
FileNamed(filename) ==
  CASE filename = "vehicles.txt" -> vehiclesFile
    [] filename = "customers.txt" -> customersFile
    [] filename = "rentedVehicles.txt" -> rentedFile
    [] filename = "transActions.txt" -> transFile

\* a line with the wrong number of comma-separated fields (an empty line has
\* one, empty, field) or with a rate, a duration or a price that is no number
Malformed(filename, line) ==
  LET f == Split(Strip(line), ",")
  IN  CASE filename = "vehicles.txt" -> Len(f) < 3 \/ ~ParseFloat(f[3]).ok
        [] filename = "customers.txt" -> Len(f) # 4
        [] filename = "rentedVehicles.txt" -> Len(f) # 3
        [] filename = "transActions.txt" ->
             Len(f) # 6 \/ ~ParseInt(f[5]).ok \/ ~ParseFloat(f[6]).ok

\* C12: a bulk read of one of the four collections that meets a malformed
\* line ends in a parse error; it returns no list of records.
C12_MalformedLineAbortsRead ==
  out.op = "read" =>
    ((\E i \in 1..Len(FileNamed(out.file)) : Malformed(out.file, FileNamed(out.file)[i]))
       => out.error # "None")

\* the raw fields of the Active Rental line of a registration
RentalFieldsOf(lines, reg) ==
  RawFields(lines[CHOOSE i \in 1..Len(lines) : RawFields(lines[i])[1] = reg])

\* the daily rate, in cents, of the vehicle with a registration
RateOf(vehicles, reg) ==
  vehicles[CHOOSE i \in 1..Len(vehicles) : vehicles[i].reg = reg].rate

\* C13: a successful return_car for registration X appends exactly one
\* Transaction line: its registration is X, its date of birth and start are
\* those of X's Active Rental line, its end is the clock reading of the return,
\* and its price is its duration in days times the daily rate of vehicle X,
\* written with two decimals; customers.txt and vehicles.txt are unchanged.
C13_ReturnAppendsOneTransaction ==
  [][Returned(out') /\ OpStep =>
       /\ Len(transFile') = Len(transFile) + 1
       /\ IsPrefix(transFile, transFile')
       /\ LET t == RawFields(Last(transFile'))
              r == RentalFieldsOf(rentedFile, out'.reg)
          IN  /\ Len(t) = 6
              /\ t[1] = out'.reg
              /\ t[2] = r[2]
              /\ t[3] = r[3]
              /\ t[4] = Strftime(now')
              /\ ParseInt(t[5]).ok
              /\ t[6] = CentsText(ParseInt(t[5]).val * RateOf(read_vehicles, out'.reg))
       /\ customersFile' = customersFile
       /\ vehiclesFile' = vehiclesFile]_vars

\* a return after three days has just written a transaction of 4 days at
\* 25.00 a day
C13_Witness ==
  /\ Returned(out) /\ out.days = 4
  /\ RawFields(Last(transFile))[6] = <<"1","0","0",".","0","0">>
  /\ RawFields(Last(transFile))[4] = Strftime(now)

\* the prices, in cents, written in the lines of transActions.txt, added up
RECURSIVE PriceSum(_)
PriceSum(lines) ==
  IF lines = <<>> THEN 0
  ELSE ParseFloat(RawFields(Head(lines))[6]).val + PriceSum(Tail(lines))

\* C14: count_money reports the sum of the prices of all Transaction lines
\* and their number, and the no-rentals message when there is none; it
\* changes no file.  The Transaction lines are those of the successful
\* returns: only a successful return_car changes transActions.txt, and it
\* appends one line whose price is the cost it reported, so from an empty
\* file the count is the number of successful returns and the total the sum
\* of their costs.
C14_CountMoneyReportsSumAndCount ==
  [][/\ (out'.op = "count" /\ OpStep) =>
          /\ files' = files
          /\ IF Len(transFile) = 0
             THEN out'.msg = "NoRentals" /\ out'.total = 0 /\ out'.count = 0
             ELSE /\ out'.msg = "Earnings"
                  /\ out'.count = Len(transFile)
                  /\ out'.total = PriceSum(transFile)
     /\ (Returned(out') /\ OpStep) =>
          /\ Len(transFile') = Len(transFile) + 1
          /\ PriceSum(transFile') = PriceSum(transFile) + out'.cost
     /\ transFile' # transFile => Returned(out') /\ IsPrefix(transFile, transFile')]_vars

\* count_money has just reported 150.25 for the two transactions of 100.00
\* and 50.25
C14_Witness ==
  /\ out.op = "count" /\ out.msg = "Earnings"
  /\ out.count = 2 /\ out.total = 15025
  /\ {RawFields(transFile[i])[6] : i \in 1..Len(transFile)}
       = {<<"1","0","0",".","0","0">>, <<"5","0",".","2","5">>}

\* C15: customers.txt and transActions.txt are append-only: in every step
\* the previous content of each is a prefix of the new one; customers.txt
\* grows only in a rent_car that ran add_customer to its end, and
\* transActions.txt only in return_car.
C15_CustomersAndTransactionsAppendOnly ==
  [][/\ IsPrefix(customersFile, customersFile')
     /\ IsPrefix(transFile, transFile')
     /\ customersFile' # customersFile =>
          /\ out'.op = "rent"
          /\ validate_customer(RawFields(Last(customersFile'))[1], now) = "Valid"
     /\ transFile' # transFile => out'.op = "return"]_vars

\* both files hold two lines, the second transaction just appended
C15_Witness ==
  Returned(out) /\ Len(customersFile) = 2 /\ Len(transFile) = 2

\* C16: a bulk read of a file that does not exist gives the empty list and
\* no error.  Without vehicles.txt, list_available_cars and rent_car report
\* that no cars are available; without rentedVehicles.txt every vehicle on
\* file is available; without transActions.txt count_money reports the
\* no-rentals message; and the operation that only reads changes no file and
\* creates none.
C16_AbsentFileReadsAsEmpty ==
  [][/\ ("vehicles.txt" \in absent /\ out'.op \in {"list", "rent"} /\ OpStep) =>
          out'.msg = "NoCars" /\ files' = files
     /\ ("rentedVehicles.txt" \in absent /\ "vehicles.txt" \notin absent
           /\ vehiclesFile # <<>> /\ out'.op \in {"list", "rent"} /\ OpStep) =>
          /\ out'.msg # "NoCars"
          /\ out'.avail = ReadVehiclesOf(vehiclesFile)
          /\ out'.op = "list" => files' = files
     /\ ("transActions.txt" \in absent /\ out'.op = "count" /\ OpStep) =>
          out'.msg = "NoRentals" /\ files' = files]_vars

\* with no rentedVehicles.txt and no transActions.txt, list_available_cars
\* has just listed both vehicles of vehicles.txt
C16_Witness ==
  /\ {"rentedVehicles.txt", "transActions.txt"} \subseteq absent
  /\ out.op = "list" /\ Len(out.avail) = 2
  /\ out.avail = ReadVehiclesOf(vehiclesFile)

\* the registrations on file that have no Active Rental record
AvailableRegs == Regs(read_vehicles) \ Regs(read_rented)

\* C17: rent_car asks for the registration once.  A registration that is
\* not in the available list ends rent_car with the invalid-registration
\* message: add_customer is not run and no file is written.  A registration
\* that is in the list is the one written to the Active Rental line when the
\* rental succeeds.
C17_SelectionTakesOneAttempt ==
  [][(out'.op = "rent" /\ OpStep /\ out'.msg # "NoCars") =>
       /\ out'.reg \notin AvailableRegs =>
            out'.msg = "InvalidReg" /\ files' = files
       /\ out'.reg \in AvailableRegs =>
            /\ out'.msg \in {"InvalidDate", "AgeOutOfRange", "Duplicate", "Rented"}
            /\ files' # files =>
                 /\ Rented(out')
                 /\ Len(rentedFile') = Len(rentedFile) + 1
                 /\ RawFields(Last(rentedFile'))[1] = out'.reg]_vars

\* AB was typed while AB is rented and only ABC is available: rent_car has
\* just ended with the invalid-registration message
C17_Witness ==
  /\ out.op = "rent" /\ out.msg = "InvalidReg"
  /\ out.reg = <<"A","B">>
  /\ out.reg \in Regs(read_rented)
  /\ Regs(out.avail) = {<<"A","B","C">>}

\* C18: from empty customers.txt, rentedVehicles.txt and transActions.txt,
\* after any sequence of completed operations the number of Customer lines
\* is the number of Active Rental lines plus the number of Transaction lines.
C18_CustomersAreRentalsPlusTransactions ==
  Len(customersFile) = Len(rentedFile) + Len(transFile)

\* the dates of birth, as dates, in the Active Rental and Transaction lines
RenterDobs ==
  [i \in 1..Len(rentedFile) |-> StrptimeDate(RawFields(rentedFile[i])[2])]
  \o [i \in 1..Len(transFile) |-> StrptimeDate(RawFields(transFile[i])[2])]

\* C19: from empty files, each customer date of birth is in at most one
\* record of the Active Rental and Transaction lines taken together: a
\* rent_car by a customer who rented before writes nothing.
C19_CustomerRentsAtMostOnce ==
  \A i, j \in 1..Len(RenterDobs) : i # j => RenterDobs[i] # RenterDobs[j]

\* C20 as stated: no two Transaction lines carry the same registration and
\* start timestamp, also when a return_car was interrupted between its two
\* writes and the return was repeated.
C20_OneTransactionPerRental ==
  \A i, j \in 1..Len(transFile) :
    i # j => <<RawFields(transFile[i])[1], RawFields(transFile[i])[3]>>
             # <<RawFields(transFile[j])[1], RawFields(transFile[j])[3]>>

\* C20 amended: a Transaction line is appended only by a return_car that
\* found an Active Rental line of the registration, one line at a time, with
\* that rental's registration and start; a return_car that runs to its end
\* leaves no Active Rental line of the registration, so the rental gets no
\* second Transaction line; the rental line stays after an append only when
\* return_car was interrupted between its two writes, and then the repeated
\* return appends another Transaction line for the same rental.
C20_CompletedReturnClosesRental ==
  [][/\ (Returned(out') /\ OpStep) =>
          /\ out'.reg \notin Regs(ReadRentedOf(rentedFile'))
          /\ Len(transFile') = Len(transFile) + 1
     /\ transFile' # transFile =>
          /\ Len(transFile') = Len(transFile) + 1
          /\ IsPrefix(transFile, transFile')
          /\ out'.op = "return"
          /\ out'.reg \in Regs(read_rented)
          /\ RawFields(Last(transFile'))[1] = out'.reg
          /\ RawFields(Last(transFile'))[3] = RentalFieldsOf(rentedFile, out'.reg)[3]
          /\ out'.reg \in Regs(ReadRentedOf(rentedFile')) => out'.msg = "Interrupted"]_vars

\* the return repeated after an interrupted one has just completed: the
\* rental is closed and has two Transaction lines
C20_Witness ==
  /\ Returned(out) /\ rentedFile = <<>>
  /\ Len(transFile) = 2
  /\ RawFields(transFile[1])[1] = RawFields(transFile[2])[1]
  /\ RawFields(transFile[1])[3] = RawFields(transFile[2])[3]
  /\ Len(customersFile) = 1

====
